---- MODULE Spec2Model ----
(***************************************************************************)
(* State-machine model of app.py: the Streamlit quiz trainer.  One state   *)
(* of the model is the session after one script run; one action is one     *)
(* script run: the run a user interaction starts, or the run that follows  *)
(* a run that ended in st.rerun().                                         *)
(***************************************************************************)
EXTENDS Integers, Sequences, FiniteSets, TLC

\* Python's None, for string-valued places (a radio with no option, dict.get).
None == "None"

\* st.session_state["auth_user"] = None
NoUser == [none |-> TRUE]

\* Largest score the model lets a session reach (quiz_score itself is unbounded).
MaxScore == 3

(***************************************************************************)
(* The dataset file data/items.jsonl.                                      *)
(***************************************************************************)
\* One key/text pair of a JSON options object (a dict keeps insertion order).
Opt(k, t) == [key |-> k, text |-> t]

\* One line of items.jsonl, restricted to the fields the quiz engine reads.
Item(cid, dom, sub, opts, ans) ==
    [case_id |-> cid, domain |-> dom, sub_specialty |-> sub,
     options |-> opts, correct_answer |-> ans]

OptsAB == <<Opt("A", "t1"), Opt("B", "t2")>>
OptsBAD == <<Opt("B", "t2"), Opt("A", "t1"), Opt("D", "t4")>>
OptsBA == <<Opt("B", "t2"), Opt("A", "t1")>>
OptsF == <<Opt("F", "t6")>>

\* The spec's end-to-end bank: domains Cardio, Cardio, Resp.
RowsScenario ==
    << Item("C1", "Cardio", "HF", OptsAB, "A"),
       Item("C2", "Cardio", "General", OptsBA, "B"),
       Item("C3", "Resp", "General", OptsAB, "A") >>

\* Four items: "All" has length 4, every single domain has length 2, and
\* (Cardio, Asthma) matches nothing.
RowsFour ==
    << Item("Q1", "Cardio", "HF", OptsAB, "B"),
       Item("Q2", "Resp", "Asthma", OptsAB, "A"),
       Item("Q3", "Cardio", "HF", OptsBA, "A"),
       Item("Q4", "Resp", "COPD", OptsAB, "B") >>

\* Options out of order, and an item none of whose keys is in A..E.
RowsOpts ==
    << Item("K1", "Resp", "Asthma", OptsBAD, "D"),
       Item("K2", "Resp", "COPD", OptsF, "A") >>

RowsOne == << Item("S1", "Cardio", "HF", OptsAB, "A") >>

Datasets ==
    { [exists |-> FALSE, rows |-> <<>>],
      [exists |-> TRUE, rows |-> <<>>],
      [exists |-> TRUE, rows |-> RowsOne],
      [exists |-> TRUE, rows |-> RowsScenario],
      [exists |-> TRUE, rows |-> RowsFour],
      [exists |-> TRUE, rows |-> RowsOpts] }

(***************************************************************************)
(* Strings that the code takes apart (emails, the ADMIN_EMAILS secret) are *)
(* sequences of Unicode code points.                                       *)
(***************************************************************************)
\* "Admin@X.com"
E_AdminX == <<65, 100, 109, 105, 110, 64, 88, 46, 99, 111, 109>>
\* "admin@x.com"
E_adminx == <<97, 100, 109, 105, 110, 64, 120, 46, 99, 111, 109>>
\* "t@x.com"
E_trainee == <<116, 64, 120, 46, 99, 111, 109>>
\* "b@x.com"
E_boss == <<98, 64, 120, 46, 99, 111, 109>>
\* "É@x.com" and "é@x.com"
E_Eboss == <<201, 64, 120, 46, 99, 111, 109>>
E_eboss == <<233, 64, 120, 46, 99, 111, 109>>
\* "Ā@x.com" and "ā@x.com" (U+0100, U+0101)
E_Amacron == <<256, 64, 120, 46, 99, 111, 109>>
E_amacron == <<257, 64, 120, 46, 99, 111, 109>>
\* "İ@x.com" (U+0130) and "i̇@x.com" (i, U+0307): one character longer
E_Idot == <<304, 64, 120, 46, 99, 111, 109>>
E_idot == <<105, 775, 64, 120, 46, 99, 111, 109>>
\* "K@x.com" with the Kelvin sign U+212A, and "k@x.com"
E_Kelvin == <<8490, 64, 120, 46, 99, 111, 109>>
E_k == <<107, 64, 120, 46, 99, 111, 109>>
\* "ΑΣ@x.com", "ας@x.com" (final sigma U+03C2) and "ασ@x.com" (U+03C3)
E_AlphaSigma == <<913, 931, 64, 120, 46, 99, 111, 109>>
E_alphafinal == <<945, 962, 64, 120, 46, 99, 111, 109>>
E_alphasigma == <<945, 963, 64, 120, 46, 99, 111, 109>>

\* res.user.email = None
NoneEmail == <<-1>>

\* Identities the provider can return from sign_in_with_password.
Users ==
    { [email |-> E_AdminX, id |-> "u1"],
      [email |-> E_trainee, id |-> "u2"] }

\* st.secrets.  A key that is not set reads as "" (None for the service key).
MkSecrets(url, anon, service, admins) ==
    [file |-> TRUE, SUPABASE_URL |-> url, SUPABASE_ANON_KEY |-> anon,
     SUPABASE_SERVICE_ROLE_KEY |-> service, ADMIN_EMAILS |-> admins]

\* No secrets file at all: st.secrets.get raises at the first read.
NoSecretsFile ==
    [file |-> FALSE, SUPABASE_URL |-> "", SUPABASE_ANON_KEY |-> "",
     SUPABASE_SERVICE_ROLE_KEY |-> None, ADMIN_EMAILS |-> <<>>]

\* ADMIN_EMAILS = " Admin@X.com ,b@x.com"
AdminsRaw == <<32>> \o E_AdminX \o <<32, 44>> \o E_boss
\* "\f\xa0Admin@X.com\r\n,É@x.com\x0b"
AdminsPadded ==
    <<12, 160>> \o E_AdminX \o <<13, 10, 44>> \o E_Eboss \o <<11>>
\* "Ā@x.com,i̇@x.com,k@x.com,ΑΣ@x.com"
AdminsWide ==
    E_Amacron \o <<44>> \o E_idot \o <<44>> \o E_k \o <<44>> \o E_AlphaSigma

Secrets ==
    { MkSecrets("https://p.supabase.co", "anon", "service", AdminsRaw),
      MkSecrets("", "anon", "service", AdminsRaw),
      MkSecrets("https://p.supabase.co", "", "service", AdminsRaw),
      MkSecrets("", "", None, <<>>),
      NoSecretsFile }

VARIABLES
    dataset,      \* content of ITEMS_PATH (read again by every script run)
    auth_user,    \* st.session_state["auth_user"]
    quiz_index,   \* st.session_state["quiz_index"]
    quiz_score,   \* st.session_state["quiz_score"]
    responses,    \* st.session_state["responses"]: case_id -> chosen
    dom_choice,   \* value of the "Domain" selectbox
    sub_choice,   \* value of the "Sub-specialty" selectbox
    choice,       \* value of the radio of the item on screen
    filtered,     \* the filtered frame of the last script run
    notice,       \* the st.success / st.error message left on screen
    scored,       \* history: the case_ids for which a Submit has raised quiz_score
    secrets,      \* st.secrets
    admin_emails, \* the module's list ADMIN_EMAILS
    stopped,      \* the script ends before main(): st.secrets raised, or
                  \* st.stop() at the guardrail
    supabase_user,   \* the module's client for the anonymous key
    supabase_admin,  \* the module's client for the service key, or None
    session_keys,    \* the keys st.session_state holds
    surfaces,     \* what the last script run drew
    rerun,        \* the last script run ended in st.rerun()
    shown         \* case_id of the item the last script run drew, or None

\* What is fixed when the script starts.
boot == <<secrets, admin_emails, stopped, supabase_user, supabase_admin>>

vars == <<dataset, auth_user, quiz_index, quiz_score, responses,
          dom_choice, sub_choice, choice, filtered, notice, scored,
          secrets, admin_emails, stopped, supabase_user, supabase_admin,
          session_keys, surfaces, rerun, shown>>

(***************************************************************************)
(* Helpers of app.py.                                                      *)
(***************************************************************************)
keys == <<"A", "B", "C", "D", "E">>

\* k in d, for an options dict
HasKey(d, k) == \E i \in DOMAIN d : d[i].key = k

\* d[k], for an options dict
GetKey(d, k) == d[CHOOSE i \in DOMAIN d : d[i].key = k].text

\* A variant that keeps the keys in A..E in the order of the source.
order_opts_SourceOrder(d) ==
    SelectSeq(d, LAMBDA o : \E i \in DOMAIN keys : keys[i] = o.key)

\* {k: d[k] for k in keys if k in d}
order_opts(d) ==
    LET F[i \in 0..Len(keys)] ==
            IF i = 0 THEN <<>>
            ELSE IF HasKey(d, keys[i])
                 THEN Append(F[i-1], Opt(keys[i], GetKey(d, keys[i])))
                 ELSE F[i-1]
    IN F[Len(keys)]

\* load_items: the empty frame when the file is absent, else one row per
\* line with its options normalised.
load_items(ds) ==
    IF ~ds.exists THEN <<>>
    ELSE [i \in DOMAIN ds.rows |->
            [ds.rows[i] EXCEPT !.options = order_opts(ds.rows[i].options)]]

is_logged_in(au) == au # NoUser

\* The upper-case code points whose str.lower() is one other code point, as
\* runs <<first, last, step, lower - upper>> (Unicode 14.0.0, the tables of
\* Python 3.11).
LowerRuns ==
    {
      <<65,90,1,32>>, <<192,214,1,32>>, <<216,222,1,32>>, <<256,302,2,1>>,
      <<306,310,2,1>>, <<313,327,2,1>>, <<330,374,2,1>>,
      <<376,376,1,-121>>, <<377,381,2,1>>, <<385,385,1,210>>,
      <<386,388,2,1>>, <<390,390,1,206>>, <<391,391,1,1>>,
      <<393,394,1,205>>, <<395,395,1,1>>, <<398,398,1,79>>,
      <<399,399,1,202>>, <<400,400,1,203>>, <<401,401,1,1>>,
      <<403,403,1,205>>, <<404,404,1,207>>, <<406,406,1,211>>,
      <<407,407,1,209>>, <<408,408,1,1>>, <<412,412,1,211>>,
      <<413,413,1,213>>, <<415,415,1,214>>, <<416,420,2,1>>,
      <<422,422,1,218>>, <<423,423,1,1>>, <<425,425,1,218>>,
      <<428,428,1,1>>, <<430,430,1,218>>, <<431,431,1,1>>,
      <<433,434,1,217>>, <<435,437,2,1>>, <<439,439,1,219>>,
      <<440,440,1,1>>, <<444,444,1,1>>, <<452,452,1,2>>, <<453,453,1,1>>,
      <<455,455,1,2>>, <<456,456,1,1>>, <<458,458,1,2>>, <<459,475,2,1>>,
      <<478,494,2,1>>, <<497,497,1,2>>, <<498,500,2,1>>,
      <<502,502,1,-97>>, <<503,503,1,-56>>, <<504,542,2,1>>,
      <<544,544,1,-130>>, <<546,562,2,1>>, <<570,570,1,10795>>,
      <<571,571,1,1>>, <<573,573,1,-163>>, <<574,574,1,10792>>,
      <<577,577,1,1>>, <<579,579,1,-195>>, <<580,580,1,69>>,
      <<581,581,1,71>>, <<582,590,2,1>>, <<880,882,2,1>>, <<886,886,1,1>>,
      <<895,895,1,116>>, <<902,902,1,38>>, <<904,906,1,37>>,
      <<908,908,1,64>>, <<910,911,1,63>>, <<913,929,1,32>>,
      <<932,939,1,32>>, <<975,975,1,8>>, <<984,1006,2,1>>,
      <<1012,1012,1,-60>>, <<1015,1015,1,1>>, <<1017,1017,1,-7>>,
      <<1018,1018,1,1>>, <<1021,1023,1,-130>>, <<1024,1039,1,80>>,
      <<1040,1071,1,32>>, <<1120,1152,2,1>>, <<1162,1214,2,1>>,
      <<1216,1216,1,15>>, <<1217,1229,2,1>>, <<1232,1326,2,1>>,
      <<1329,1366,1,48>>, <<4256,4293,1,7264>>, <<4295,4295,1,7264>>,
      <<4301,4301,1,7264>>, <<5024,5103,1,38864>>, <<5104,5109,1,8>>,
      <<7312,7354,1,-3008>>, <<7357,7359,1,-3008>>, <<7680,7828,2,1>>,
      <<7838,7838,1,-7615>>, <<7840,7934,2,1>>, <<7944,7951,1,-8>>,
      <<7960,7965,1,-8>>, <<7976,7983,1,-8>>, <<7992,7999,1,-8>>,
      <<8008,8013,1,-8>>, <<8025,8031,2,-8>>, <<8040,8047,1,-8>>,
      <<8072,8079,1,-8>>, <<8088,8095,1,-8>>, <<8104,8111,1,-8>>,
      <<8120,8121,1,-8>>, <<8122,8123,1,-74>>, <<8124,8124,1,-9>>,
      <<8136,8139,1,-86>>, <<8140,8140,1,-9>>, <<8152,8153,1,-8>>,
      <<8154,8155,1,-100>>, <<8168,8169,1,-8>>, <<8170,8171,1,-112>>,
      <<8172,8172,1,-7>>, <<8184,8185,1,-128>>, <<8186,8187,1,-126>>,
      <<8188,8188,1,-9>>, <<8486,8486,1,-7517>>, <<8490,8490,1,-8383>>,
      <<8491,8491,1,-8262>>, <<8498,8498,1,28>>, <<8544,8559,1,16>>,
      <<8579,8579,1,1>>, <<9398,9423,1,26>>, <<11264,11311,1,48>>,
      <<11360,11360,1,1>>, <<11362,11362,1,-10743>>,
      <<11363,11363,1,-3814>>, <<11364,11364,1,-10727>>,
      <<11367,11371,2,1>>, <<11373,11373,1,-10780>>,
      <<11374,11374,1,-10749>>, <<11375,11375,1,-10783>>,
      <<11376,11376,1,-10782>>, <<11378,11378,1,1>>, <<11381,11381,1,1>>,
      <<11390,11391,1,-10815>>, <<11392,11490,2,1>>, <<11499,11501,2,1>>,
      <<11506,11506,1,1>>, <<42560,42604,2,1>>, <<42624,42650,2,1>>,
      <<42786,42798,2,1>>, <<42802,42862,2,1>>, <<42873,42875,2,1>>,
      <<42877,42877,1,-35332>>, <<42878,42886,2,1>>, <<42891,42891,1,1>>,
      <<42893,42893,1,-42280>>, <<42896,42898,2,1>>, <<42902,42920,2,1>>,
      <<42922,42922,1,-42308>>, <<42923,42923,1,-42319>>,
      <<42924,42924,1,-42315>>, <<42925,42925,1,-42305>>,
      <<42926,42926,1,-42308>>, <<42928,42928,1,-42258>>,
      <<42929,42929,1,-42282>>, <<42930,42930,1,-42261>>,
      <<42931,42931,1,928>>, <<42932,42946,2,1>>, <<42948,42948,1,-48>>,
      <<42949,42949,1,-42307>>, <<42950,42950,1,-35384>>,
      <<42951,42953,2,1>>, <<42960,42960,1,1>>, <<42966,42968,2,1>>,
      <<42997,42997,1,1>>, <<65313,65338,1,32>>, <<66560,66599,1,40>>,
      <<66736,66771,1,40>>, <<66928,66938,1,39>>, <<66940,66954,1,39>>,
      <<66956,66962,1,39>>, <<66964,66965,1,39>>, <<68736,68786,1,64>>,
      <<71840,71871,1,32>>, <<93760,93791,1,32>>, <<125184,125217,1,34>> }

Uppers ==
    UNION {{r[1] + k * r[3] : k \in 0..((r[2] - r[1]) \div r[3])} : r \in LowerRuns}

LowerDelta ==
    [c \in Uppers |->
        (CHOOSE r \in LowerRuns :
            c >= r[1] /\ c <= r[2] /\ (c - r[1]) % r[3] = 0)[4]]

\* The code points that are cased and not case-ignorable, and those that
\* are case-ignorable, as intervals <<first, last>>.
CasedIntervals ==
    {
      <<65,90>>, <<97,122>>, <<170,170>>, <<181,181>>, <<186,186>>,
      <<192,214>>, <<216,246>>, <<248,442>>, <<444,447>>, <<452,659>>,
      <<661,687>>, <<880,883>>, <<886,887>>, <<891,893>>, <<895,895>>,
      <<902,902>>, <<904,906>>, <<908,908>>, <<910,929>>, <<931,1013>>,
      <<1015,1153>>, <<1162,1327>>, <<1329,1366>>, <<1376,1416>>,
      <<4256,4293>>, <<4295,4295>>, <<4301,4301>>, <<4304,4346>>,
      <<4349,4351>>, <<5024,5109>>, <<5112,5117>>, <<7296,7304>>,
      <<7312,7354>>, <<7357,7359>>, <<7424,7467>>, <<7531,7543>>,
      <<7545,7578>>, <<7680,7957>>, <<7960,7965>>, <<7968,8005>>,
      <<8008,8013>>, <<8016,8023>>, <<8025,8025>>, <<8027,8027>>,
      <<8029,8029>>, <<8031,8061>>, <<8064,8116>>, <<8118,8124>>,
      <<8126,8126>>, <<8130,8132>>, <<8134,8140>>, <<8144,8147>>,
      <<8150,8155>>, <<8160,8172>>, <<8178,8180>>, <<8182,8188>>,
      <<8450,8450>>, <<8455,8455>>, <<8458,8467>>, <<8469,8469>>,
      <<8473,8477>>, <<8484,8484>>, <<8486,8486>>, <<8488,8488>>,
      <<8490,8493>>, <<8495,8500>>, <<8505,8505>>, <<8508,8511>>,
      <<8517,8521>>, <<8526,8526>>, <<8544,8575>>, <<8579,8580>>,
      <<9398,9449>>, <<11264,11387>>, <<11390,11492>>, <<11499,11502>>,
      <<11506,11507>>, <<11520,11557>>, <<11559,11559>>, <<11565,11565>>,
      <<42560,42605>>, <<42624,42651>>, <<42786,42863>>, <<42865,42887>>,
      <<42891,42894>>, <<42896,42954>>, <<42960,42961>>, <<42963,42963>>,
      <<42965,42969>>, <<42997,42998>>, <<43002,43002>>, <<43824,43866>>,
      <<43872,43880>>, <<43888,43967>>, <<64256,64262>>, <<64275,64279>>,
      <<65313,65338>>, <<65345,65370>>, <<66560,66639>>, <<66736,66771>>,
      <<66776,66811>>, <<66928,66938>>, <<66940,66954>>, <<66956,66962>>,
      <<66964,66965>>, <<66967,66977>>, <<66979,66993>>, <<66995,67001>>,
      <<67003,67004>>, <<68736,68786>>, <<68800,68850>>, <<71840,71903>>,
      <<93760,93823>>, <<119808,119892>>, <<119894,119964>>,
      <<119966,119967>>, <<119970,119970>>, <<119973,119974>>,
      <<119977,119980>>, <<119982,119993>>, <<119995,119995>>,
      <<119997,120003>>, <<120005,120069>>, <<120071,120074>>,
      <<120077,120084>>, <<120086,120092>>, <<120094,120121>>,
      <<120123,120126>>, <<120128,120132>>, <<120134,120134>>,
      <<120138,120144>>, <<120146,120485>>, <<120488,120512>>,
      <<120514,120538>>, <<120540,120570>>, <<120572,120596>>,
      <<120598,120628>>, <<120630,120654>>, <<120656,120686>>,
      <<120688,120712>>, <<120714,120744>>, <<120746,120770>>,
      <<120772,120779>>, <<122624,122633>>, <<122635,122654>>,
      <<125184,125251>>, <<127280,127305>>, <<127312,127337>>,
      <<127344,127369>> }

CaseIgnorableIntervals ==
    {
      <<39,39>>, <<46,46>>, <<58,58>>, <<94,94>>, <<96,96>>, <<168,168>>,
      <<173,173>>, <<175,175>>, <<180,180>>, <<183,184>>, <<688,879>>,
      <<884,885>>, <<890,890>>, <<900,901>>, <<903,903>>, <<1155,1161>>,
      <<1369,1369>>, <<1375,1375>>, <<1425,1469>>, <<1471,1471>>,
      <<1473,1474>>, <<1476,1477>>, <<1479,1479>>, <<1524,1524>>,
      <<1536,1541>>, <<1552,1562>>, <<1564,1564>>, <<1600,1600>>,
      <<1611,1631>>, <<1648,1648>>, <<1750,1757>>, <<1759,1768>>,
      <<1770,1773>>, <<1807,1807>>, <<1809,1809>>, <<1840,1866>>,
      <<1958,1968>>, <<2027,2037>>, <<2042,2042>>, <<2045,2045>>,
      <<2070,2093>>, <<2137,2139>>, <<2184,2184>>, <<2192,2193>>,
      <<2200,2207>>, <<2249,2306>>, <<2362,2362>>, <<2364,2364>>,
      <<2369,2376>>, <<2381,2381>>, <<2385,2391>>, <<2402,2403>>,
      <<2417,2417>>, <<2433,2433>>, <<2492,2492>>, <<2497,2500>>,
      <<2509,2509>>, <<2530,2531>>, <<2558,2558>>, <<2561,2562>>,
      <<2620,2620>>, <<2625,2626>>, <<2631,2632>>, <<2635,2637>>,
      <<2641,2641>>, <<2672,2673>>, <<2677,2677>>, <<2689,2690>>,
      <<2748,2748>>, <<2753,2757>>, <<2759,2760>>, <<2765,2765>>,
      <<2786,2787>>, <<2810,2815>>, <<2817,2817>>, <<2876,2876>>,
      <<2879,2879>>, <<2881,2884>>, <<2893,2893>>, <<2901,2902>>,
      <<2914,2915>>, <<2946,2946>>, <<3008,3008>>, <<3021,3021>>,
      <<3072,3072>>, <<3076,3076>>, <<3132,3132>>, <<3134,3136>>,
      <<3142,3144>>, <<3146,3149>>, <<3157,3158>>, <<3170,3171>>,
      <<3201,3201>>, <<3260,3260>>, <<3263,3263>>, <<3270,3270>>,
      <<3276,3277>>, <<3298,3299>>, <<3328,3329>>, <<3387,3388>>,
      <<3393,3396>>, <<3405,3405>>, <<3426,3427>>, <<3457,3457>>,
      <<3530,3530>>, <<3538,3540>>, <<3542,3542>>, <<3633,3633>>,
      <<3636,3642>>, <<3654,3662>>, <<3761,3761>>, <<3764,3772>>,
      <<3782,3782>>, <<3784,3789>>, <<3864,3865>>, <<3893,3893>>,
      <<3895,3895>>, <<3897,3897>>, <<3953,3966>>, <<3968,3972>>,
      <<3974,3975>>, <<3981,3991>>, <<3993,4028>>, <<4038,4038>>,
      <<4141,4144>>, <<4146,4151>>, <<4153,4154>>, <<4157,4158>>,
      <<4184,4185>>, <<4190,4192>>, <<4209,4212>>, <<4226,4226>>,
      <<4229,4230>>, <<4237,4237>>, <<4253,4253>>, <<4348,4348>>,
      <<4957,4959>>, <<5906,5908>>, <<5938,5939>>, <<5970,5971>>,
      <<6002,6003>>, <<6068,6069>>, <<6071,6077>>, <<6086,6086>>,
      <<6089,6099>>, <<6103,6103>>, <<6109,6109>>, <<6155,6159>>,
      <<6211,6211>>, <<6277,6278>>, <<6313,6313>>, <<6432,6434>>,
      <<6439,6440>>, <<6450,6450>>, <<6457,6459>>, <<6679,6680>>,
      <<6683,6683>>, <<6742,6742>>, <<6744,6750>>, <<6752,6752>>,
      <<6754,6754>>, <<6757,6764>>, <<6771,6780>>, <<6783,6783>>,
      <<6823,6823>>, <<6832,6862>>, <<6912,6915>>, <<6964,6964>>,
      <<6966,6970>>, <<6972,6972>>, <<6978,6978>>, <<7019,7027>>,
      <<7040,7041>>, <<7074,7077>>, <<7080,7081>>, <<7083,7085>>,
      <<7142,7142>>, <<7144,7145>>, <<7149,7149>>, <<7151,7153>>,
      <<7212,7219>>, <<7222,7223>>, <<7288,7293>>, <<7376,7378>>,
      <<7380,7392>>, <<7394,7400>>, <<7405,7405>>, <<7412,7412>>,
      <<7416,7417>>, <<7468,7530>>, <<7544,7544>>, <<7579,7679>>,
      <<8125,8125>>, <<8127,8129>>, <<8141,8143>>, <<8157,8159>>,
      <<8173,8175>>, <<8189,8190>>, <<8203,8207>>, <<8216,8217>>,
      <<8228,8228>>, <<8231,8231>>, <<8234,8238>>, <<8288,8292>>,
      <<8294,8303>>, <<8305,8305>>, <<8319,8319>>, <<8336,8348>>,
      <<8400,8432>>, <<11388,11389>>, <<11503,11505>>, <<11631,11631>>,
      <<11647,11647>>, <<11744,11775>>, <<11823,11823>>, <<12293,12293>>,
      <<12330,12333>>, <<12337,12341>>, <<12347,12347>>, <<12441,12446>>,
      <<12540,12542>>, <<40981,40981>>, <<42232,42237>>, <<42508,42508>>,
      <<42607,42610>>, <<42612,42621>>, <<42623,42623>>, <<42652,42655>>,
      <<42736,42737>>, <<42752,42785>>, <<42864,42864>>, <<42888,42890>>,
      <<42994,42996>>, <<43000,43001>>, <<43010,43010>>, <<43014,43014>>,
      <<43019,43019>>, <<43045,43046>>, <<43052,43052>>, <<43204,43205>>,
      <<43232,43249>>, <<43263,43263>>, <<43302,43309>>, <<43335,43345>>,
      <<43392,43394>>, <<43443,43443>>, <<43446,43449>>, <<43452,43453>>,
      <<43471,43471>>, <<43493,43494>>, <<43561,43566>>, <<43569,43570>>,
      <<43573,43574>>, <<43587,43587>>, <<43596,43596>>, <<43632,43632>>,
      <<43644,43644>>, <<43696,43696>>, <<43698,43700>>, <<43703,43704>>,
      <<43710,43711>>, <<43713,43713>>, <<43741,43741>>, <<43756,43757>>,
      <<43763,43764>>, <<43766,43766>>, <<43867,43871>>, <<43881,43883>>,
      <<44005,44005>>, <<44008,44008>>, <<44013,44013>>, <<64286,64286>>,
      <<64434,64450>>, <<65024,65039>>, <<65043,65043>>, <<65056,65071>>,
      <<65106,65106>>, <<65109,65109>>, <<65279,65279>>, <<65287,65287>>,
      <<65294,65294>>, <<65306,65306>>, <<65342,65342>>, <<65344,65344>>,
      <<65392,65392>>, <<65438,65439>>, <<65507,65507>>, <<65529,65531>>,
      <<66045,66045>>, <<66272,66272>>, <<66422,66426>>, <<67456,67461>>,
      <<67463,67504>>, <<67506,67514>>, <<68097,68099>>, <<68101,68102>>,
      <<68108,68111>>, <<68152,68154>>, <<68159,68159>>, <<68325,68326>>,
      <<68900,68903>>, <<69291,69292>>, <<69446,69456>>, <<69506,69509>>,
      <<69633,69633>>, <<69688,69702>>, <<69744,69744>>, <<69747,69748>>,
      <<69759,69761>>, <<69811,69814>>, <<69817,69818>>, <<69821,69821>>,
      <<69826,69826>>, <<69837,69837>>, <<69888,69890>>, <<69927,69931>>,
      <<69933,69940>>, <<70003,70003>>, <<70016,70017>>, <<70070,70078>>,
      <<70089,70092>>, <<70095,70095>>, <<70191,70193>>, <<70196,70196>>,
      <<70198,70199>>, <<70206,70206>>, <<70367,70367>>, <<70371,70378>>,
      <<70400,70401>>, <<70459,70460>>, <<70464,70464>>, <<70502,70508>>,
      <<70512,70516>>, <<70712,70719>>, <<70722,70724>>, <<70726,70726>>,
      <<70750,70750>>, <<70835,70840>>, <<70842,70842>>, <<70847,70848>>,
      <<70850,70851>>, <<71090,71093>>, <<71100,71101>>, <<71103,71104>>,
      <<71132,71133>>, <<71219,71226>>, <<71229,71229>>, <<71231,71232>>,
      <<71339,71339>>, <<71341,71341>>, <<71344,71349>>, <<71351,71351>>,
      <<71453,71455>>, <<71458,71461>>, <<71463,71467>>, <<71727,71735>>,
      <<71737,71738>>, <<71995,71996>>, <<71998,71998>>, <<72003,72003>>,
      <<72148,72151>>, <<72154,72155>>, <<72160,72160>>, <<72193,72202>>,
      <<72243,72248>>, <<72251,72254>>, <<72263,72263>>, <<72273,72278>>,
      <<72281,72283>>, <<72330,72342>>, <<72344,72345>>, <<72752,72758>>,
      <<72760,72765>>, <<72767,72767>>, <<72850,72871>>, <<72874,72880>>,
      <<72882,72883>>, <<72885,72886>>, <<73009,73014>>, <<73018,73018>>,
      <<73020,73021>>, <<73023,73029>>, <<73031,73031>>, <<73104,73105>>,
      <<73109,73109>>, <<73111,73111>>, <<73459,73460>>, <<78896,78904>>,
      <<92912,92916>>, <<92976,92982>>, <<92992,92995>>, <<94031,94031>>,
      <<94095,94111>>, <<94176,94177>>, <<94179,94180>>,
      <<110576,110579>>, <<110581,110587>>, <<110589,110590>>,
      <<113821,113822>>, <<113824,113827>>, <<118528,118573>>,
      <<118576,118598>>, <<119143,119145>>, <<119155,119170>>,
      <<119173,119179>>, <<119210,119213>>, <<119362,119364>>,
      <<121344,121398>>, <<121403,121452>>, <<121461,121461>>,
      <<121476,121476>>, <<121499,121503>>, <<121505,121519>>,
      <<122880,122886>>, <<122888,122904>>, <<122907,122913>>,
      <<122915,122916>>, <<122918,122922>>, <<123184,123197>>,
      <<123566,123566>>, <<123628,123631>>, <<125136,125142>>,
      <<125252,125259>>, <<127995,127999>>, <<917505,917505>>,
      <<917536,917631>>, <<917760,917999>> }

Cased == UNION {r[1]..r[2] : r \in CasedIntervals}
CaseIgnorable == UNION {r[1]..r[2] : r \in CaseIgnorableIntervals}

\* Is the capital sigma s[i] in final position: a cased letter before it,
\* none after it, case-ignorable characters skipped on both sides.
final_sigma(s, i) ==
    LET before == {j \in 1..(i - 1) : s[j] \notin CaseIgnorable}
        after == {j \in (i + 1)..Len(s) : s[j] \notin CaseIgnorable}
    IN /\ before # {}
       /\ s[CHOOSE j \in before : \A k \in before : k <= j] \in Cased
       /\ \/ after = {}
          \/ s[CHOOSE j \in after : \A k \in after : j <= k] \notin Cased

\* str.lower() of the character s[i]: capital sigma (U+03A3) by its
\* position, U+0130 to the two code points i and U+0307, any other
\* upper-case letter to its lower case.
lower_char(s, i) ==
    IF s[i] = 931 THEN (IF final_sigma(s, i) THEN <<962>> ELSE <<963>>)
    ELSE IF s[i] = 304 THEN <<105, 775>>
    ELSE IF s[i] \in Uppers THEN <<s[i] + LowerDelta[s[i]]>>
    ELSE <<s[i]>>

\* str.lower()
lower(s) ==
    LET F[i \in 0..Len(s)] == IF i = 0 THEN <<>> ELSE F[i - 1] \o lower_char(s, i)
    IN F[Len(s)]

\* The characters str.strip() removes: those for which str.isspace() holds.
Whitespace ==
    {
      9, 10, 11, 12, 13, 28, 29, 30, 31, 32, 133, 160, 5760, 8192, 8193,
      8194, 8195, 8196, 8197, 8198, 8199, 8200, 8201, 8202, 8232, 8233,
      8239, 8287, 12288 }

\* str.strip()
strip(s) ==
    LET inked == {i \in DOMAIN s : s[i] \notin Whitespace}
    IN IF inked = {} THEN <<>>
       ELSE SubSeq(s, CHOOSE i \in inked : \A j \in inked : i <= j,
                      CHOOSE i \in inked : \A j \in inked : i >= j)

\* str.split(sep): the pieces between the separators, empty pieces included.
split(s, sep) ==
    LET pos == {0, Len(s) + 1} \cup {i \in DOMAIN s : s[i] = sep}
        nth(k) == CHOOSE p \in pos : Cardinality({q \in pos : q < p}) = k - 1
    IN [k \in 1..(Cardinality(pos) - 1) |-> SubSeq(s, nth(k) + 1, nth(k + 1) - 1)]

\* [e.strip().lower() for e in secrets.get("ADMIN_EMAILS", "").split(",") if e.strip()]
ADMIN_EMAILS(sec) ==
    LET kept == SelectSeq(split(sec.ADMIN_EMAILS, 44), LAMBDA e : strip(e) # <<>>)
    IN [i \in DOMAIN kept |-> lower(strip(kept[i]))]

\* user.get("email") or ""
EmailOrEmpty(user) == IF user.email = NoneEmail THEN <<>> ELSE user.email

\* Variant of current_user_email: the email is not lower-cased.
current_user_email_AsIs(au) ==
    IF au # NoUser THEN EmailOrEmpty(au) ELSE NoneEmail

\* current_user_email: the lower-cased email, None when nobody is signed in.
current_user_email(au) ==
    IF au # NoUser THEN lower(EmailOrEmpty(au)) ELSE NoneEmail

\* is_admin: email in ADMIN_EMAILS, for the list admins that line 32 built.
is_admin(au, admins) ==
    LET email == current_user_email(au)
    IN \E i \in DOMAIN admins : admins[i] = email

\* Variant of guardrails_ok: the script stops only when both are missing.
guardrails_ok_Either(sec) == ~(sec.SUPABASE_URL = "" /\ sec.SUPABASE_ANON_KEY = "")

\* The guardrail: the script goes on past `if not SUPABASE_URL or not
\* SUPABASE_ANON_KEY: st.stop()`.
guardrails_ok(sec) == ~(sec.SUPABASE_URL = "" \/ sec.SUPABASE_ANON_KEY = "")

\* get_client_user()
get_client_user(sec) == [url |-> sec.SUPABASE_URL, key |-> sec.SUPABASE_ANON_KEY]

\* get_client_admin(): None without the service key.
get_client_admin(sec) ==
    IF sec.SUPABASE_SERVICE_ROLE_KEY = None \/ sec.SUPABASE_SERVICE_ROLE_KEY = ""
    THEN [none |-> TRUE]
    ELSE [url |-> sec.SUPABASE_URL, key |-> sec.SUPABASE_SERVICE_ROLE_KEY]

\* Lexicographic order of the taxonomy strings of the datasets above,
\* which is what sorted() sorts by.
StrOrder == <<"Asthma", "COPD", "Cardio", "General", "HF", "Resp">>

sorted(S) == SelectSeq(StrOrder, LAMBDA s : s \in S)

\* ["All"] + sorted(df[col].dropna().unique())
domains(df) == <<"All">> \o sorted({df[i].domain : i \in DOMAIN df})
sub_specs(df) == <<"All">> \o sorted({df[i].sub_specialty : i \in DOMAIN df})

Range(s) == {s[i] : i \in DOMAIN s}

\* Variant of Filter: the second mask is applied to df, not to the frame the
\* first mask left.
Filter_SecondFromBank(df, dom, sub) ==
    LET f1 == IF dom # "All"
              THEN SelectSeq(df, LAMBDA r : r.domain = dom) ELSE df
    IN IF sub # "All"
       THEN SelectSeq(df, LAMBDA r : r.sub_specialty = sub) ELSE f1

\* filtered = df.copy(), then one boolean mask per selection other than "All"
Filter(df, dom, sub) ==
    LET f1 == IF dom # "All"
              THEN SelectSeq(df, LAMBDA r : r.domain = dom) ELSE df
    IN IF sub # "All"
       THEN SelectSeq(f1, LAMBDA r : r.sub_specialty = sub) ELSE f1

\* Variant of ClampIndex: the comparison is > instead of >=.
ClampIndex_OffByOne(idx, n) == IF idx > n THEN 0 ELSE idx

\* Variant of ClampIndex: the index is never reset.
ClampIndex_NoReset(idx, n) == idx

\* idx = quiz_index; if idx >= len(filtered): idx = 0
ClampIndex(idx, n) == IF idx >= n THEN 0 ELSE idx

\* Variant of prev_index: the floor is 1, max(1, idx - 1).
prev_index_FloorOne(idx) == IF idx - 1 > 1 THEN idx - 1 ELSE 1

\* max(0, idx - 1)
prev_index(idx) == IF idx - 1 > 0 THEN idx - 1 ELSE 0

\* Variant of next_index: navigation wraps round to the first item.
next_index_Wrap(idx, n) == (idx + 1) % n

\* min(len(filtered) - 1, idx + 1)
next_index(idx, n) == IF idx + 1 < n - 1 THEN idx + 1 ELSE n - 1

\* list(key_to_label.keys())
OptionKeys(row) ==
    LET key_to_label == order_opts(row.options)
    IN [i \in DOMAIN key_to_label |-> key_to_label[i].key]

\* responses.get(case_id)
Get(resp, cid) == IF cid \in DOMAIN resp THEN resp[cid] ELSE None

\* Variant of Put: responses.setdefault(case_id, ch), which keeps an earlier
\* response.
Put_SetDefault(resp, cid, ch) ==
    [c \in DOMAIN resp \cup {cid} |-> IF c \in DOMAIN resp THEN resp[c] ELSE ch]

\* Variant of Put: responses = {case_id: ch}, which drops the other keys.
Put_Replace(resp, cid, ch) == [c \in {cid} |-> ch]

\* responses[case_id] = ch
Put(resp, cid, ch) ==
    [c \in DOMAIN resp \cup {cid} |-> IF c = cid THEN ch ELSE resp[c]]

\* The value of a radio drawn for the first time: option number
\* index(prev_choice) if prev_choice is an option, else option 0; None when
\* there is no option.
RadioDefault(row, resp) ==
    LET ks == OptionKeys(row)
        prev_choice == Get(resp, row.case_id)
    IN IF Len(ks) = 0 THEN None
       ELSE IF prev_choice \in Range(ks) THEN prev_choice ELSE ks[1]


(***************************************************************************)
(* Session state and the script.                                           *)
(***************************************************************************)
\* st.session_state as init_session leaves a new session.
init_session ==
    [auth_user |-> NoUser, quiz_index |-> 0, quiz_score |-> 0, responses |-> <<>>]

\* Variant of sign_out: only the identity is cleared.
sign_out_KeepsQuiz(ss, ok) == [ss EXCEPT !.auth_user = NoUser]

\* Variant of sign_out: no try/except, so a provider failure leaves the
\* function before the four keys are reset.
sign_out_Raises(ss, ok) ==
    IF ok
    THEN [auth_user |-> NoUser, quiz_index |-> 0, quiz_score |-> 0, responses |-> <<>>]
    ELSE ss

\* sign_out: the provider call may raise (ok = FALSE); the exception is
\* swallowed and the four keys are reset either way.
sign_out(ss, ok) ==
    [auth_user |-> NoUser, quiz_index |-> 0, quiz_score |-> 0, responses |-> <<>>]

\* Variant of sign_in: the except branch returns a placeholder identity
\* instead of None.
sign_in_Guest(res) ==
    IF res.ok THEN [email |-> res.user.email, id |-> res.user.id]
    ELSE [email |-> <<>>, id |-> ""]

\* sign_in: the identity on success, None when the provider raises.
sign_in(res) == IF res.ok THEN [email |-> res.user.email, id |-> res.user.id] ELSE NoUser

\* Variant of on_submit: a wrong answer takes a point away.
on_submit_Penalty(ss, row, ch) ==
    [ss EXCEPT !.responses = Put(ss.responses, row.case_id, ch),
               !.quiz_score = IF ch = row.correct_answer
                              THEN ss.quiz_score + 1
                              ELSE IF ss.quiz_score > 0 THEN ss.quiz_score - 1 ELSE 0]

\* sign_up: True when the provider accepts, False when it raises.
sign_up(ok) == ok

\* The body of `if st.button("Submit")`.
on_submit(ss, row, ch) ==
    [ss EXCEPT !.responses = Put(ss.responses, row.case_id, ch),
               !.quiz_score = IF ch = row.correct_answer
                              THEN ss.quiz_score + 1 ELSE ss.quiz_score]

\* The sign-in form of auth_block, submitted: auth_user is set when sign_in
\* returned an identity, and only then.
auth_block(ss, res) ==
    LET user == sign_in(res)
    IN IF user # NoUser THEN [ss EXCEPT !.auth_user = user] ELSE ss

\* The body of `if st.button("Previous")`, before st.rerun().
on_previous(ss, idx) == [ss EXCEPT !.quiz_index = prev_index(idx)]

\* Variant of on_next: moving on also forgets the recorded responses.
on_next_Clears(ss, idx, n) ==
    [ss EXCEPT !.quiz_index = next_index(idx, n), !.responses = <<>>]

\* The body of `if st.button("Next")`, before st.rerun().
on_next(ss, idx, n) == [ss EXCEPT !.quiz_index = next_index(idx, n)]

\* What one script run leaves: the session, the filtered frame (<<>> when
\* the run did not build one), whether it ended in st.rerun(), the case_id
\* of the item it drew and the default of that item's radio (None when no
\* item was drawn), what it drew, and the keys of the keyed widgets it
\* registered.
Outcome(ss, filt, rerun_, shown_, radio, drawn, widget_keys) ==
    [ss |-> ss, filtered |-> filt, rerun |-> rerun_, shown |-> shown_,
     radio |-> radio, drawn |-> drawn, keys |-> widget_keys]

\* The feedback block: drawn when responses.get(case_id) is truthy, with the
\* verdict of the stored response.
feedback(resp, row) ==
    IF Get(resp, row.case_id) # None /\ Get(resp, row.case_id) # ""
    THEN IF resp[row.case_id] = row.correct_answer
         THEN {"Correct"} ELSE {"Incorrect"}
    ELSE {}

\* mcq_player(df) with the widget values dom, sub, ch and the button that
\* was clicked ("" when none).  A run that calls st.rerun() ends at the
\* button; filtered.iloc[idx] raises when idx is not a row of the frame.
mcq_player(df, ss, dom, sub, ch, button) ==
    IF Len(df) = 0
    THEN Outcome(ss, <<>>, FALSE, None, None, {"mcq_player", "No items found"}, {})
    ELSE LET filt == Filter(df, dom, sub)
             idx == ClampIndex(ss.quiz_index, Len(filt))
             s1 == [ss EXCEPT !.quiz_index = idx]
             head == {"mcq_player", "Filters", "Items available"}
         IN IF Len(filt) = 0
            THEN Outcome(s1, filt, FALSE, None, None, head, {})
            ELSE IF idx >= Len(filt)
            THEN Outcome(s1, filt, FALSE, None, None, head \cup {"IndexError"}, {})
            ELSE LET row == filt[idx + 1]
                     radio == RadioDefault(row, s1.responses)
                     item == head \cup {"Question", "Submit"}
                     key == {"choice_" \o row.case_id}
                 IN CASE button = "Submit" ->
                           LET s2 == on_submit(s1, row, ch)
                           IN Outcome(s2, filt, FALSE, row.case_id, radio,
                                      item \cup {"Previous", "Next", "Score"}
                                           \cup feedback(s2.responses, row),
                                      key)
                      [] button = "Previous" ->
                           Outcome(on_previous(s1, idx), filt, TRUE, row.case_id,
                                   radio, item \cup {"Previous"}, key)
                      [] button = "Next" ->
                           Outcome(on_next(s1, idx, Len(filt)), filt, TRUE,
                                   row.case_id, radio,
                                   item \cup {"Previous", "Next"}, key)
                      [] OTHER ->
                           Outcome(s1, filt, FALSE, row.case_id, radio,
                                   item \cup {"Previous", "Next", "Score"}
                                        \cup feedback(s1.responses, row),
                                   key)

\* Variant of load_warning: no warning for a missing file.
load_warning_Silent(ds) == {}

\* The warning of load_items for a missing file.
load_warning(ds) == IF ~ds.exists THEN {"Question bank not found"} ELSE {}

\* Variant of tabs: "Admin" is appended for whoever is signed in.
tabs_AnyUser(au, admins) ==
    <<"Practice", "My Account">> \o (IF is_logged_in(au) THEN <<"Admin">> ELSE <<>>)

\* tabs in main(): "Admin" is appended for a signed-in administrator.
tabs(au, admins) ==
    <<"Practice", "My Account">>
        \o (IF is_logged_in(au) /\ is_admin(au, admins) THEN <<"Admin">> ELSE <<>>)

\* if is_logged_in() and is_admin() and len(tabs) == 3
admin_gate(au, admins) ==
    is_logged_in(au) /\ is_admin(au, admins) /\ Len(tabs(au, admins)) = 3

\* The forms and keyed widgets auth_block registers with Streamlit, and the
\* un-keyed button of profile_box (its identity is its type and label).
auth_block_widgets ==
    {"form signin", "signin_email", "signin_pw",
     "form signup", "signup_email", "signup_pw"}
profile_box_widgets == {"button Sign out"}

\* The keys auth_block puts in st.session_state: up to the submit button of
\* the first form when the run ends in st.rerun() there, else all four.
auth_block_keys(rerun_) ==
    IF rerun_ THEN {"signin_email", "signin_pw"}
    ELSE {"signin_email", "signin_pw", "signup_email", "signup_pw"}

\* `with active[1]`: what the My Account tab draws before its first widget,
\* the widgets it then registers, and what it draws when they are accepted.
account_tab(ss) ==
    IF ~is_logged_in(ss.auth_user)
    THEN [before |-> {"Create an account or sign in below"},
          widgets |-> auth_block_widgets, drawn |-> {"account auth_block"}]
    ELSE [before |-> {"My Account subheader"},
          widgets |-> profile_box_widgets,
          drawn |-> {"account profile_box", "Welcome"}]

\* What a run draws after the Practice tab, which registered the widgets
\* practice_widgets.  Streamlit raises when a run registers a form or a
\* widget it has registered already: the run ends there, the exception is
\* drawn, and what follows is not reached.
after_practice(practice_widgets, ss, admins) ==
    LET account == account_tab(ss)
    IN account.before
       \cup IF practice_widgets \cap account.widgets # {}
            THEN {"DuplicateWidgetID"}
            ELSE account.drawn
                 \cup (IF admin_gate(ss.auth_user, admins)
                       THEN {"admin_panel"} ELSE {})
                 \cup {"footer"}

\* The widget values and the event a script run starts with: the two
\* selectboxes, the radio, the button that was clicked ("" when none), and
\* what the provider will do (ok: the call succeeds; user: the identity
\* sign_in_with_password returns).
Event(dom, sub, ch, button, ok, user) ==
    [dom |-> dom, sub |-> sub, ch |-> ch, button |-> button,
     res |-> IF ok THEN [ok |-> TRUE, user |-> user] ELSE [ok |-> FALSE]]

\* One run of main() for the session ss.  A run that ends in st.rerun() or
\* in an exception draws nothing after that point; the sign-in run ends
\* after the first form of auth_block ("signin form").
main(admins, ds, ss, w) ==
    LET labels == Range(tabs(ss.auth_user, admins))
    IN IF ~is_logged_in(ss.auth_user)
       THEN LET s1 == IF w.button = "Sign in" THEN auth_block(ss, w.res) ELSE ss
            IN IF is_logged_in(s1.auth_user)
               THEN Outcome(s1, <<>>, TRUE, None, None,
                            labels \cup {"Please sign in", "signin form"},
                            auth_block_keys(TRUE))
               ELSE Outcome(s1, <<>>, FALSE, None, None,
                            labels \cup {"Please sign in", "auth_block"}
                                   \cup after_practice(auth_block_widgets, s1, admins),
                            auth_block_keys(FALSE))
       ELSE IF w.button = "Sign out"
            THEN Outcome(sign_out(ss, w.res.ok), <<>>, TRUE, None, None,
                         labels \cup load_warning(ds) \cup {"profile_box"}, {})
            ELSE LET p == mcq_player(load_items(ds), ss, w.dom, w.sub, w.ch, w.button)
                     top == labels \cup {"profile_box"} \cup load_warning(ds)
                 IN [p EXCEPT !.drawn =
                        top \cup @ \cup
                        IF p.rerun \/ "IndexError" \in p.drawn THEN {}
                        ELSE after_practice(profile_box_widgets, p.ss, admins)]

\* Where the provider's answer plays no part.
NoUserInput == [email |-> <<>>, id |-> ""]

Session ==
    [auth_user |-> auth_user, quiz_index |-> quiz_index,
     quiz_score |-> quiz_score, responses |-> responses]

\* Is there an item under the cursor (filtered.iloc[idx] can be read), and
\* which: the item on screen, after a run that did not end in st.rerun().
ItemShown(au, filt, idx) == is_logged_in(au) /\ idx < Len(filt)
CurrentCase == IF ItemShown(auth_user, filtered, quiz_index)
               THEN filtered[quiz_index + 1].case_id ELSE None

\* The radio after the run r, which got the value ch for the radio of the
\* item that was on screen: a radio that was on screen before keeps its
\* value, a radio that is new takes its default.
RadioAfter(r, ch) ==
    IF r.shown = None THEN None
    ELSE IF r.shown = shown THEN ch ELSE r.radio

\* The module-level code of app.py: st.secrets raises when there is no
\* secrets file, the guardrail stops the script when a credential is
\* missing, else the two clients are created and main() is called.
NotCreated == [created |-> FALSE]
startup(sec) ==
    IF ~sec.file
    THEN [stopped |-> TRUE, supabase_user |-> NotCreated,
          supabase_admin |-> NotCreated, drawn |-> {"No secrets found"}]
    ELSE IF ~guardrails_ok(sec)
    THEN [stopped |-> TRUE, supabase_user |-> NotCreated,
          supabase_admin |-> NotCreated,
          drawn |-> {"Supabase credentials are missing"}]
    ELSE [stopped |-> FALSE, supabase_user |-> get_client_user(sec),
          supabase_admin |-> get_client_admin(sec), drawn |-> {}]

\* Stores the outcome r of a run that got the radio value ch.
Store(r, ch) ==
    /\ auth_user' = r.ss.auth_user
    /\ quiz_index' = r.ss.quiz_index
    /\ quiz_score' = r.ss.quiz_score
    /\ responses' = r.ss.responses
    /\ filtered' = r.filtered
    /\ shown' = r.shown
    /\ choice' = RadioAfter(r, ch)
    /\ rerun' = r.rerun
    /\ surfaces' = r.drawn
    /\ session_keys' = DOMAIN init_session \cup r.keys
    /\ UNCHANGED <<dataset, boot>>

\* The first run of main() in a new session.
first_run(admins, ds) ==
    main(admins, ds, init_session, Event("All", "All", None, "", TRUE, NoUserInput))

InitWith(S, D) ==
    /\ secrets \in S
    /\ dataset \in D
    /\ admin_emails = IF secrets.file THEN ADMIN_EMAILS(secrets) ELSE <<>>
    /\ stopped = startup(secrets).stopped
    /\ supabase_user = startup(secrets).supabase_user
    /\ supabase_admin = startup(secrets).supabase_admin
    /\ auth_user = init_session.auth_user
    /\ quiz_index = init_session.quiz_index
    /\ quiz_score = init_session.quiz_score
    /\ responses = init_session.responses
    /\ dom_choice = "All"
    /\ sub_choice = "All"
    /\ choice = None
    /\ filtered = <<>>
    /\ shown = None
    /\ rerun = FALSE
    /\ notice = ""
    /\ scored = {}
    /\ session_keys = IF stopped THEN {}
                      ELSE DOMAIN init_session
                             \cup first_run(admin_emails, dataset).keys
    /\ surfaces = IF stopped THEN startup(secrets).drawn
                  ELSE first_run(admin_emails, dataset).drawn

Init == InitWith(Secrets, Datasets)

(***************************************************************************)
(* User interactions: each is the script run the browser event starts.  A  *)
(* run that ends in st.rerun() leaves rerun set; the run that follows is   *)
(* the step Rerun.                                                         *)
(***************************************************************************)
\* The widget values of the page, with the button that is clicked.
Click(button, ok, user) == Event(dom_choice, sub_choice, choice, button, ok, user)

\* The sign-in form is submitted and the provider accepts: auth_user is set
\* and the run ends in st.rerun().
SignIn(u) ==
    /\ ~stopped /\ ~rerun
    /\ ~is_logged_in(auth_user)
    /\ Store(main(admin_emails, dataset, Session, Click("Sign in", TRUE, u)), choice)
    /\ notice' = "Signed in"
    /\ UNCHANGED <<dom_choice, sub_choice, scored>>

\* The sign-in form is submitted and the provider raises.
SignInFail ==
    /\ ~stopped /\ ~rerun
    /\ ~is_logged_in(auth_user)
    /\ Store(main(admin_emails, dataset, Session,
                  Click("Sign in", FALSE, NoUserInput)), choice)
    /\ notice' = IF is_logged_in(auth_user') THEN "Signed in" ELSE "Sign-in failed"
    /\ UNCHANGED <<dom_choice, sub_choice, scored>>

\* The sign-up form is submitted.
SignUp(ok) ==
    /\ ~stopped /\ ~rerun
    /\ ~is_logged_in(auth_user)
    /\ Store(main(admin_emails, dataset, Session,
                  Click("Create account", ok, NoUserInput)), choice)
    /\ notice' = IF sign_up(ok) THEN "Account created" ELSE "Sign-up failed"
    /\ UNCHANGED <<dom_choice, sub_choice, scored>>

\* "Sign out" in profile_box: the session is reset and the run ends in
\* st.rerun() before the quiz widgets are drawn, so their values are gone.
SignOut(ok) ==
    /\ ~rerun
    /\ is_logged_in(auth_user)
    /\ Store(main(admin_emails, dataset, Session, Click("Sign out", ok, NoUserInput)),
             choice)
    /\ dom_choice' = "All"
    /\ sub_choice' = "All"
    /\ notice' = ""
    /\ scored' = {}

\* Another value is picked in the "Domain" selectbox.
SelectDomain(d) ==
    /\ ~rerun
    /\ is_logged_in(auth_user)
    /\ d \in Range(domains(load_items(dataset)))
    /\ Len(load_items(dataset)) > 0
    /\ d # dom_choice
    /\ Store(main(admin_emails, dataset, Session,
                  Event(d, sub_choice, choice, "", TRUE, NoUserInput)), choice)
    /\ dom_choice' = d
    /\ sub_choice' = sub_choice
    /\ notice' = ""
    /\ UNCHANGED scored

\* Another value is picked in the "Sub-specialty" selectbox.
SelectSubSpecialty(s) ==
    /\ ~rerun
    /\ is_logged_in(auth_user)
    /\ s \in Range(sub_specs(load_items(dataset)))
    /\ Len(load_items(dataset)) > 0
    /\ s # sub_choice
    /\ Store(main(admin_emails, dataset, Session,
                  Event(dom_choice, s, choice, "", TRUE, NoUserInput)), choice)
    /\ dom_choice' = dom_choice
    /\ sub_choice' = s
    /\ notice' = ""
    /\ UNCHANGED scored

\* Another option of the radio is picked.
SelectChoice(k) ==
    /\ ~rerun
    /\ ItemShown(auth_user, filtered, quiz_index)
    /\ k \in Range(OptionKeys(filtered[quiz_index + 1]))
    /\ k # choice
    /\ Store(main(admin_emails, dataset, Session,
                  Event(dom_choice, sub_choice, k, "", TRUE, NoUserInput)), k)
    /\ notice' = ""
    /\ UNCHANGED <<dom_choice, sub_choice, scored>>

\* "Submit" is clicked.
Submit ==
    /\ ~rerun
    /\ ItemShown(auth_user, filtered, quiz_index)
    /\ choice = filtered[quiz_index + 1].correct_answer => quiz_score < MaxScore
    /\ Store(main(admin_emails, dataset, Session, Click("Submit", TRUE, NoUserInput)),
             choice)
    /\ notice' = "Answer submitted"
    /\ scored' = IF quiz_score' > quiz_score THEN scored \cup {CurrentCase} ELSE scored
    /\ UNCHANGED <<dom_choice, sub_choice>>

\* "Previous" is clicked: quiz_index is written and the run ends in
\* st.rerun().
Previous ==
    /\ ~rerun
    /\ ItemShown(auth_user, filtered, quiz_index)
    /\ Store(main(admin_emails, dataset, Session, Click("Previous", TRUE, NoUserInput)),
             choice)
    /\ notice' = ""
    /\ UNCHANGED <<dom_choice, sub_choice, scored>>

\* "Next" is clicked: quiz_index is written and the run ends in st.rerun().
NextItem ==
    /\ ~rerun
    /\ ItemShown(auth_user, filtered, quiz_index)
    /\ Store(main(admin_emails, dataset, Session, Click("Next", TRUE, NoUserInput)),
             choice)
    /\ notice' = ""
    /\ UNCHANGED <<dom_choice, sub_choice, scored>>

\* The run that follows st.rerun(): the script runs again with the widget
\* values as they are and no button.
Rerun ==
    /\ rerun
    /\ Store(main(admin_emails, dataset, Session, Click("", TRUE, NoUserInput)), choice)
    /\ notice' = ""
    /\ UNCHANGED <<dom_choice, sub_choice, scored>>

Next ==
    \/ \E u \in Users : SignIn(u)
    \/ SignInFail
    \/ \E ok \in BOOLEAN : SignUp(ok)
    \/ \E ok \in BOOLEAN : SignOut(ok)
    \/ \E d \in Range(StrOrder) \cup {"All"} : SelectDomain(d)
    \/ \E s \in Range(StrOrder) \cup {"All"} : SelectSubSpecialty(s)
    \/ \E k \in Range(keys) : SelectChoice(k)
    \/ Submit
    \/ Previous
    \/ NextItem
    \/ Rerun

Spec == Init /\ [][Next]_vars

(***************************************************************************)
(* The role mapping: the same interactions, over more identities and more  *)
(* values of the ADMIN_EMAILS secret, on a bank of one item.               *)
(***************************************************************************)
RoleUsers ==
    { [email |-> E_AdminX, id |-> "u1"],
      [email |-> E_adminx, id |-> "u3"],
      [email |-> E_trainee, id |-> "u2"],
      [email |-> <<32>> \o E_adminx, id |-> "u4"],
      [email |-> E_amacron, id |-> "u8"],
      [email |-> E_Idot, id |-> "u9"],
      [email |-> E_Kelvin, id |-> "u10"],
      [email |-> E_alphafinal, id |-> "u11"],
      [email |-> E_alphasigma, id |-> "u12"],
      [email |-> <<>>, id |-> "u5"],
      [email |-> E_eboss, id |-> "u7"],
      [email |-> NoneEmail, id |-> "u6"] }

RoleSecrets ==
    { MkSecrets("https://p.supabase.co", "anon", "service", E_adminx),
      MkSecrets("https://p.supabase.co", "anon", "service", AdminsRaw),
      MkSecrets("https://p.supabase.co", "anon", None, E_boss \o <<10>>),
      MkSecrets("https://p.supabase.co", "anon", "service", AdminsWide),
      MkSecrets("https://p.supabase.co", "anon", "service", AdminsPadded),
      MkSecrets("https://p.supabase.co", "anon", "service", <<44, 32, 44>>),
      MkSecrets("https://p.supabase.co", "anon", "service", <<>>) }

RoleDatasets ==
    { [exists |-> FALSE, rows |-> <<>>],
      [exists |-> TRUE, rows |-> RowsOne] }

InitRole == InitWith(RoleSecrets, RoleDatasets)

NextRole ==
    \/ \E u \in RoleUsers : SignIn(u)
    \/ SignInFail
    \/ \E ok \in BOOLEAN : SignUp(ok)
    \/ \E ok \in BOOLEAN : SignOut(ok)
    \/ \E d \in Range(StrOrder) \cup {"All"} : SelectDomain(d)
    \/ \E s \in Range(StrOrder) \cup {"All"} : SelectSubSpecialty(s)
    \/ \E k \in Range(keys) : SelectChoice(k)
    \/ Submit
    \/ Previous
    \/ NextItem
    \/ Rerun

SpecRole == InitRole /\ [][NextRole]_vars

(***************************************************************************)
(* The option ordering: the same interactions on banks of one item whose   *)
(* options object lists up to MaxOpts distinct keys in any order.          *)
(***************************************************************************)
MaxOpts == 3

\* The keys a line of the file may use, and the text it gives each of them.
OptKeys == {"A", "B", "D", "E", "F"}
OptText == [A |-> "t1", B |-> "t2", D |-> "t4", E |-> "t5", F |-> "t6"]

\* The options objects: every sequence of distinct keys of length at most
\* MaxOpts (a JSON object read by json.loads has no duplicate keys).
OptObjects ==
    LET seqs == UNION {[1..n -> OptKeys] : n \in 0..MaxOpts}
        inj == {s \in seqs : \A i, j \in DOMAIN s : s[i] = s[j] => i = j}
    IN {[i \in DOMAIN s |-> Opt(s[i], OptText[s[i]])] : s \in inj}

OptDatasets ==
    {[exists |-> TRUE, rows |-> <<Item("S1", "Cardio", "HF", o, "A")>>] :
        o \in OptObjects}

OptSecrets == {MkSecrets("https://p.supabase.co", "anon", "service", AdminsRaw)}

InitOpts == InitWith(OptSecrets, OptDatasets)

SpecOpts == InitOpts /\ [][Next]_vars


(***************************************************************************)
(* Properties.                                                             *)
(***************************************************************************)
SignOutStep == \E ok \in BOOLEAN : SignOut(ok)

\* A step in which a signed-in user's filter selection changes.
FilterChanged ==
    /\ is_logged_in(auth_user)
    /\ is_logged_in(auth_user')
    /\ <<dom_choice', sub_choice'>> # <<dom_choice, sub_choice>>

\* The selection of another domain or sub_specialty.
FilterChange ==
    \/ \E d \in Range(StrOrder) \cup {"All"} : SelectDomain(d)
    \/ \E s \in Range(StrOrder) \cup {"All"} : SelectSubSpecialty(s)

Min(a, b) == IF a <= b THEN a ELSE b
Max(a, b) == IF a >= b THEN a ELSE b

\* The row on screen.
CurrentRow == filtered[quiz_index + 1]

\* C1: At-most-once scoring.  quiz_score counts the increments of the
\* session and scored holds the case_ids they were made for, so Score is
\* incremented at most once per distinct case_id exactly when the two agree.
C1_AtMostOnce == quiz_score = Cardinality(scored)

\* C2: Cursor range.  Whenever a signed-in user's filtered view is
\* non-empty, 0 <= quiz_index < len(filtered).
C2_CursorInRange ==
    (is_logged_in(auth_user) /\ Len(filtered) > 0)
        => (0 <= quiz_index /\ quiz_index < Len(filtered))

\* C2 witness: a narrowed view of two or more items, the cursor on its last
\* item, with a response recorded.
C2_Witness ==
    /\ is_logged_in(auth_user)
    /\ dom_choice # "All"
    /\ Len(filtered) >= 2
    /\ quiz_index = Len(filtered) - 1
    /\ responses # <<>>

\* C3: Cursor clamping.  Next sets the cursor to min(N-1, cursor+1) and
\* Previous sets it to max(0, cursor-1), N the length of the view.
C3_Clamping ==
    [][ /\ NextItem => quiz_index' = Min(Len(filtered) - 1, quiz_index + 1)
        /\ Previous => quiz_index' = Max(0, quiz_index - 1) ]_vars

\* C3 witness: the cursor on the last of four items, where Next leaves it.
C3_Witness ==
    /\ Len(filtered) = 4
    /\ quiz_index = 3
    /\ ENABLED (NextItem /\ quiz_index' = 3)

\* C4: Filter-change reset.  A filter change whose view is empty or no
\* longer than the cursor resets the cursor to 0; a cursor still inside the
\* new view is left as it is.
C4_FilterReset ==
    [][ FilterChanged =>
          /\ (Len(filtered') = 0 \/ Len(filtered') <= quiz_index) => quiz_index' = 0
          /\ quiz_index < Len(filtered') => quiz_index' = quiz_index ]_vars

\* C4 witness: cursor 3, and a domain can be selected whose view has
\* length 2, which puts the cursor at 0.
C4_Witness ==
    /\ quiz_index = 3
    /\ ENABLED (FilterChange /\ Len(filtered') = 2 /\ quiz_index' = 0)

\* The items of df, in order, that match both selections.
Matching(df, dom, sub) ==
    SelectSeq(df, LAMBDA r : /\ (dom = "All" \/ r.domain = dom)
                             /\ (sub = "All" \/ r.sub_specialty = sub))

\* C5: Filter correctness.  After any history of selections the filtered
\* view of a run that reached mcq_player is exactly the bank's items, in
\* bank order, that match the current (domain, sub_specialty) pair.
C5_FilterCorrect ==
    ("mcq_player" \in surfaces /\ Len(load_items(dataset)) > 0)
        => filtered = Matching(load_items(dataset), dom_choice, sub_choice)

\* C5 witness: both selections set, and an item of the bank matches the
\* sub_specialty but not the domain.
C5_Witness ==
    /\ is_logged_in(auth_user)
    /\ dom_choice # "All"
    /\ sub_choice # "All"
    /\ Len(filtered) > 0
    /\ \E i \in DOMAIN load_items(dataset) :
          /\ load_items(dataset)[i].sub_specialty = sub_choice
          /\ load_items(dataset)[i].domain # dom_choice

\* C6: Sign-out resets the session, also when the provider call fails.
C6_SignOutResets ==
    [][ SignOutStep =>
          /\ auth_user' = NoUser
          /\ quiz_index' = 0
          /\ quiz_score' = 0
          /\ responses' = <<>> ]_vars

\* C6 witness: a session with cursor, score and responses all set, from
\* which a sign-out with a failing provider call ends with no identity.
C6_Witness ==
    /\ quiz_index > 0
    /\ quiz_score > 0
    /\ responses # <<>>
    /\ ENABLED (SignOut(FALSE) /\ auth_user' = NoUser)

\* C7: Submit records the choice for the item on screen, leaves every other
\* response and the cursor as they are.
C7_SubmitRecords ==
    [][ Submit =>
          /\ DOMAIN responses' = DOMAIN responses \cup {CurrentCase}
          /\ responses'[CurrentCase] = choice
          /\ \A c \in DOMAIN responses \ {CurrentCase} : responses'[c] = responses[c]
          /\ quiz_index' = quiz_index ]_vars

\* C7 witness: the item on screen has a recorded response, another item has
\* one too, and a different choice is about to be submitted.
C7_Witness ==
    /\ CurrentCase \in DOMAIN responses
    /\ responses[CurrentCase] # choice
    /\ DOMAIN responses # {CurrentCase}
    /\ ENABLED (Submit /\ responses'[CurrentCase] = choice)

\* C8: Response keys are never deleted except by sign-out.
C8_KeysOnlyGrow ==
    [][ \/ SignOutStep
        \/ DOMAIN responses \subseteq DOMAIN responses' ]_vars

\* C8 witness: two recorded responses, and a Submit for a third item is
\* about to add its key.
C8_Witness ==
    /\ Cardinality(DOMAIN responses) = 2
    /\ CurrentCase \notin DOMAIN responses
    /\ ENABLED (Submit /\ Cardinality(DOMAIN responses') = 3)

\* C9: Score never decreases within a session.
C9_ScoreMonotone ==
    [][ \/ SignOutStep
        \/ quiz_score' >= quiz_score ]_vars

\* C9 witness: the item on screen was answered correctly and a wrong choice
\* is about to be submitted for it; the score stays.
C9_Witness ==
    /\ CurrentCase \in DOMAIN responses
    /\ responses[CurrentCase] = CurrentRow.correct_answer
    /\ choice # CurrentRow.correct_answer
    /\ quiz_score > 0
    /\ ENABLED (Submit /\ quiz_score' = quiz_score)

\* C10: Navigation frame.  Next and Previous leave responses, score and
\* identity as they are.
C10_NavigationFrame ==
    [][ (NextItem \/ Previous) =>
          /\ responses' = responses
          /\ quiz_score' = quiz_score
          /\ auth_user' = auth_user ]_vars

\* C10 witness: responses and score set, and Next is about to move the cursor.
C10_Witness ==
    /\ responses # <<>>
    /\ quiz_score > 0
    /\ ENABLED (NextItem /\ quiz_index' = quiz_index + 1)

\* C11: Next/Previous round trip.  After a Next taken with the cursor below
\* the last index, Previous puts the cursor back where it was, on the same
\* item.
C11_RoundTrip ==
    [][ (NextItem /\ quiz_index < Len(filtered) - 1) =>
          LET page(button) == Event(dom_choice', sub_choice', choice', button,
                                    TRUE, NoUserInput)
              next_drawn == main(admin_emails', dataset', Session', page(""))
              previous == main(admin_emails', dataset', next_drawn.ss, page("Previous"))
              back == main(admin_emails', dataset', previous.ss, page(""))
          IN /\ next_drawn.shown # CurrentCase
             /\ previous.rerun
             /\ back.ss.quiz_index = quiz_index
             /\ back.shown = CurrentCase ]_vars

\* C11 witness: the cursor has moved from 0 to 1 of a narrowed view, the
\* second item is on screen, and Previous is about to take the cursor back
\* to 0.
C11_Witness ==
    /\ dom_choice # "All"
    /\ Len(filtered) >= 2
    /\ quiz_index = 1
    /\ shown = filtered[2].case_id
    /\ ENABLED (Previous /\ quiz_index' = 0 /\ rerun')

\* C12: A failed sign-in returns no identity and leaves identity, cursor,
\* score and responses as they were.
C12_SignInFailure ==
    [][ SignInFail =>
          /\ auth_user' = NoUser
          /\ auth_user' = auth_user
          /\ quiz_index' = quiz_index
          /\ quiz_score' = quiz_score
          /\ responses' = responses ]_vars

\* C12 witness: a sign-in has just failed, nobody is signed in, and the
\* session goes on: a sign-in can be made.
C12_Witness ==
    /\ notice = "Sign-in failed"
    /\ auth_user = NoUser
    /\ ENABLED (\E u \in Users : SignIn(u))

\* The configured administrator set: the entries of the secret, stripped and
\* lower-cased, the empty ones left out.
Configured ==
    {lower(strip(e)) : e \in Range(split(secrets.ADMIN_EMAILS, 44))} \ {<<>>}

\* C13: Role mapping.  A signed-in identity is an administrator exactly when
\* its lower-cased email is in the configured set; nobody, or an identity
\* with an empty email, never is; "Admin@X.com" is one under "admin@x.com";
\* under the secret AdminsPadded, whose entries carry form feed, no-break
\* space, CR LF and vertical tab around them, the administrators are
\* "Admin@X.com", "admin@x.com" and "é@x.com"; under the secret AdminsWide
\* they are "ā@x.com", "İ@x.com", "K@x.com" (Kelvin sign) and "ας@x.com",
\* and "ασ@x.com" is not one.
C13_RoleMapping ==
    LET admin == is_admin(auth_user, admin_emails)
    IN /\ auth_user = NoUser => ~admin
       /\ auth_user # NoUser =>
            /\ admin <=> lower(EmailOrEmpty(auth_user)) \in Configured
            /\ EmailOrEmpty(auth_user) = <<>> => ~admin
            /\ (auth_user.email = E_AdminX /\ secrets.ADMIN_EMAILS = E_adminx) => admin
            /\ secrets.ADMIN_EMAILS = AdminsPadded =>
                 (admin <=> auth_user.email \in {E_AdminX, E_adminx, E_eboss})
            /\ secrets.ADMIN_EMAILS = AdminsWide =>
                 (admin <=> auth_user.email \in
                               {E_amacron, E_Idot, E_Kelvin, E_alphafinal})

\* C13 witness: "Admin@X.com" is signed in under ADMIN_EMAILS = "admin@x.com"
\* and is an administrator.
C13_Witness ==
    /\ auth_user # NoUser
    /\ auth_user.email = E_AdminX
    /\ secrets.ADMIN_EMAILS = E_adminx
    /\ is_admin(auth_user, admin_emails)

\* What belongs to the practice surface.
PracticeSurface ==
    {"profile_box", "mcq_player", "Filters", "Items available", "Question",
     "Submit", "Previous", "Next", "Score", "Correct", "Incorrect"}

\* C14: Access gating.  A run draws the practice surface, and the quiz
\* state and its widgets change, only with an identity; a run draws the
\* Admin tab and the admin panel only for an identity that is an
\* administrator; a run that starts and ends without an identity draws the
\* sign-in/sign-up block and, around it, only the two tab labels, the two
\* notes and the duplicate-widget exception.  The identity a run draws for
\* is the one it starts with (the run of a sign-out click draws before it
\* clears the identity), which is also the one it ends with unless it ended
\* in st.rerun().
C14_AccessGating ==
    /\ [](/\ (~rerun /\ surfaces \cap PracticeSurface # {}) => auth_user # NoUser
          /\ (~rerun /\ surfaces \cap {"Admin", "admin_panel"} # {}) =>
                /\ auth_user # NoUser
                /\ lower(EmailOrEmpty(auth_user)) \in Configured
          /\ (auth_user = NoUser /\ ~stopped /\ ~rerun) =>
                /\ "auth_block" \in surfaces
                /\ surfaces \subseteq
                     {"Practice", "My Account", "Please sign in", "auth_block",
                      "Create an account or sign in below", "account auth_block",
                      "DuplicateWidgetID", "footer"})
    /\ [][ /\ surfaces' \cap PracticeSurface # {} => auth_user # NoUser
           /\ surfaces' \cap {"Admin", "admin_panel"} # {} =>
                /\ auth_user # NoUser
                /\ lower(EmailOrEmpty(auth_user)) \in Configured
           /\ <<quiz_index, quiz_score, responses>>'
                 # <<quiz_index, quiz_score, responses>> => auth_user # NoUser
           /\ <<dom_choice, sub_choice, choice, filtered>>'
                 # <<dom_choice, sub_choice, choice, filtered>>
              => (auth_user # NoUser \/ auth_user' # NoUser) ]_vars

\* C14 witness: a trainee is signed in, has the question on screen and no
\* Admin tab, while the administrator set is not empty.
C14_Witness ==
    /\ ~rerun
    /\ auth_user # NoUser
    /\ auth_user.email = E_trainee
    /\ "Question" \in surfaces
    /\ surfaces \cap {"Admin", "admin_panel"} = {}
    /\ Configured # {}

\* The keys of an options dict, as a set.
KeySet(d) == {d[i].key : i \in DOMAIN d}

\* Position of an option letter in the alphabet.
Rank(k) == CHOOSE i \in 1..5 : <<"A", "B", "C", "D", "E">>[i] = k

\* C15: Option ordering.  For every loaded item the normalized options hold
\* exactly the source keys that are in {A,B,C,D,E}, each with its source
\* text, in the order A,B,C,D,E whatever the source order; normalizing the
\* normalized options changes nothing; the radio of the item a complete
\* run has drawn offers the same keys in the same order.
C15_OptionOrdering ==
    LET df == load_items(dataset)
    IN /\ \A i \in DOMAIN df :
            LET src == dataset.rows[i].options
                norm == df[i].options
            IN /\ KeySet(norm) = KeySet(src) \cap {"A", "B", "C", "D", "E"}
               /\ \A j \in DOMAIN norm : \E m \in DOMAIN src : src[m] = norm[j]
               /\ \A j, k \in DOMAIN norm :
                    j < k => Rank(norm[j].key) < Rank(norm[k].key)
               /\ order_opts(norm) = norm
       /\ (~rerun /\ ItemShown(auth_user, filtered, quiz_index)) =>
            /\ OptionKeys(CurrentRow)
                 = [j \in DOMAIN CurrentRow.options |-> CurrentRow.options[j].key]
            /\ choice \in KeySet(CurrentRow.options) \cup {None}

\* C15 witness: the file lists B, A, D and the item on screen offers A, B, D
\* with the texts of the file.
C15_Witness ==
    /\ is_logged_in(auth_user)
    /\ ~rerun
    /\ shown = filtered[1].case_id
    /\ Len(dataset.rows) = 1
    /\ dataset.rows[1].options = OptsBAD
    /\ Len(filtered) = 1
    /\ filtered[1].options = <<Opt("A", "t1"), Opt("B", "t2"), Opt("D", "t4")>>
    /\ choice = "D"

\* C16: Empty bank.  A missing file gives the empty bank and, in every run
\* that loads it, a warning; with zero items a run that reaches mcq_player
\* goes on to the end of the Practice tab, says that no items were found,
\* shows no question, leaves "All" as the only value of either filter, and
\* leaves quiz_index, quiz_score and responses as they were.
C16_EmptyBank ==
    LET df == load_items(dataset)
    IN /\ ~dataset.exists =>
            /\ Len(df) = 0
            /\ "profile_box" \in surfaces => "Question bank not found" \in surfaces
       /\ (is_logged_in(auth_user) /\ ~rerun /\ Len(df) = 0) =>
            /\ domains(df) = <<"All">>
            /\ sub_specs(df) = <<"All">>
            /\ dom_choice = "All" /\ sub_choice = "All"
            /\ {"mcq_player", "No items found"} \subseteq surfaces
            /\ surfaces \cap {"Question", "Submit", "Previous", "Next"} = {}
            /\ filtered = <<>>
            /\ Session = [init_session EXCEPT !.auth_user = auth_user]

\* C16 witness: an administrator is signed in on a missing file and sees
\* both warnings under the three tabs.
C16_Witness ==
    /\ ~dataset.exists
    /\ is_logged_in(auth_user)
    /\ ~rerun
    /\ {"Question bank not found", "No items found", "Admin"} \subseteq surfaces
    /\ quiz_index = 0

\* C17: Feedback verdict.  For the item a complete run has drawn a verdict
\* is drawn if and only if responses holds an entry for its case_id, and the
\* verdict is "Correct" if and only if the stored response equals
\* correct_answer.
C17_FeedbackVerdict ==
    (~rerun /\ ItemShown(auth_user, filtered, quiz_index)) =>
        /\ surfaces \cap {"Correct", "Incorrect"} # {}
              <=> CurrentCase \in DOMAIN responses
        /\ "Correct" \in surfaces
              <=> /\ CurrentCase \in DOMAIN responses
                  /\ responses[CurrentCase] = CurrentRow.correct_answer

\* C18: Configuration absence is fatal at startup.  When SUPABASE_URL or
\* SUPABASE_ANON_KEY is missing, the secrets file present or not, the script
\* has ended before main(): neither client was created, st.session_state
\* has no key, only the error is drawn (the guardrail's, or the exception of
\* st.secrets when there is no file), and no sign-in, quiz or admin step
\* can be taken.
C18_ConfigAbsenceFatal ==
    (~secrets.file \/ secrets.SUPABASE_URL = "" \/ secrets.SUPABASE_ANON_KEY = "") =>
        /\ stopped
        /\ supabase_user = NotCreated
        /\ supabase_admin = NotCreated
        /\ session_keys = {}
        /\ surfaces = IF secrets.file THEN {"Supabase credentials are missing"}
                      ELSE {"No secrets found"}
        /\ ~is_logged_in(auth_user)
        /\ ~ENABLED Next

\* C18 witness: only the URL is missing, the anonymous key and the service
\* key are configured, and the script has stopped.
C18_Witness ==
    /\ secrets.file
    /\ secrets.SUPABASE_URL = ""
    /\ secrets.SUPABASE_ANON_KEY # ""
    /\ stopped
    /\ supabase_user = NotCreated

\* C19: Score never exceeds the number of distinct case_ids in responses,
\* so the ratio of the "Score: s / n" line is never above 1.
C19_ScoreAtMostResponses == quiz_score <= Cardinality(DOMAIN responses)

\* C20: Whenever there is no identity (before the first sign-in, after a
\* failed sign-in, after sign-out) the quiz state is the initial one, and a
\* sign-in starts from it: nothing of an earlier identity's quiz survives.
C20_NullIdentityInitialQuiz ==
    /\ [](auth_user = NoUser =>
            /\ quiz_index = 0
            /\ quiz_score = 0
            /\ responses = <<>>)
    /\ [][ (auth_user = NoUser /\ auth_user' # NoUser) =>
             /\ quiz_index' = 0
             /\ quiz_score' = 0
             /\ responses' = <<>> ]_vars

\* C20 witness: an identity with cursor, score and responses all set, whose
\* sign-out leaves no identity and the initial quiz state.
C20_Witness ==
    /\ is_logged_in(auth_user)
    /\ quiz_index > 0 /\ quiz_score > 0 /\ Cardinality(DOMAIN responses) >= 2
    /\ ENABLED (/\ SignOut(TRUE)
                /\ auth_user' = NoUser
                /\ Session' = init_session)

====
